---- MODULE Spec2Model ----
(***************************************************************************)
(* Model of safe_dataframe: Columns (the ColumnSet), BaseData (the         *)
(* TypedTable) and the BaseTransform / Pipeline family.                    *)
(*                                                                         *)
(* A pandas DataFrame is a record [index, cols]: index is the number of    *)
(* rows, cols the ordered columns, each [name, dtype, vals].  Cell values  *)
(* are strings: "a", "b" stand for Python str objects, "0", "1", "2" for   *)
(* Python ints and "NA" for pd.NA.  A pandera schema is the ordered list   *)
(* of its [name, dtype, nullable] column declarations.                     *)
(***************************************************************************)
EXTENDS Integers, Sequences, FiniteSets

VARIABLES
    colsets,    \* heap of Columns instances, addressed by index
    datas,      \* heap of BaseData instances, addressed by index
    warnings,   \* messages passed to warnings.warn, in order
    last,       \* the latest call on Columns / BaseData and its outcome
    run         \* the latest Pipeline.__call__ and its outcome

vars == <<colsets, datas, warnings, last, run>>

(***************************************************************************)
(* Bounds of the model.                                                    *)
(***************************************************************************)
MaxPipe == 3
MaxColumns == 2
MaxData == 3
MaxRoots == 1

(***************************************************************************)
(* The table engine (pandas), as far as the code consumes it.              *)
(***************************************************************************)
NA == "NA"
IntValues == {"0", "1", "2"}

Col(name, dtype, vals) == [name |-> name, dtype |-> dtype, vals |-> vals]

\* DataFrame.empty: any axis of length 0.
Empty(data) == data.index = 0 \/ Len(data.cols) = 0

\* DataFrame.columns, the ordered column labels.
ColumnNames(data) == [i \in 1..Len(data.cols) |-> data.cols[i].name]

HasColumn(data, name) == \E i \in 1..Len(data.cols) : data.cols[i].name = name

\* data[name] for a label the frame holds once.
GetColumn(data, name) ==
    data.cols[CHOOSE i \in 1..Len(data.cols) : data.cols[i].name = name]

HasNull(col) == \E i \in 1..Len(col.vals) : col.vals[i] = NA

\* Series.fillna(0): missing cells become 0; an object column that held a
\* missing cell and now holds only ints is downcast to int64.
FillNaCol(col) ==
    LET vals == [i \in 1..Len(col.vals) |->
                    IF col.vals[i] = NA THEN "0" ELSE col.vals[i]]
    IN  Col(col.name,
            IF /\ col.dtype = "object"
               /\ HasNull(col)
               /\ \A i \in 1..Len(vals) : vals[i] \in IntValues
            THEN "int64" ELSE col.dtype,
            vals)

\* The row appended by the AddRow function: one cell per column.
DefaultCell(col) == IF col.dtype = "int64" THEN "0" ELSE "a"

(***************************************************************************)
(* Transforms.  A transform object is [kind, transforms]: kind names the   *)
(* class or the function a from_function transform wraps, transforms is    *)
(* the tuple a Pipeline holds (empty otherwise).                           *)
(***************************************************************************)
Transform(kind) == [kind |-> kind, transforms |-> <<>>]
Pipeline(transforms) == [kind |-> "Pipeline", transforms |-> transforms]
NoTransform == Transform("None")

\* FillNaTransform of the tests: data.fillna(0).
FillNaTransform(data) ==
    [data EXCEPT !.cols = [i \in 1..Len(data.cols) |-> FillNaCol(data.cols[i])]]

\* A row filter that keeps no row: data[mask] with an all-False mask.
DropRows(data) ==
    [index |-> 0,
     cols |-> [i \in 1..Len(data.cols) |->
                  Col(data.cols[i].name, data.cols[i].dtype, <<>>)]]

\* A column selection that keeps no column: data[[]].
DropCols(data) == [data EXCEPT !.cols = <<>>]

\* A function that appends one default row (a totals or sentinel row).
AddRow(data) ==
    [index |-> data.index + 1,
     cols |-> [i \in 1..Len(data.cols) |->
                  Col(data.cols[i].name, data.cols[i].dtype,
                      Append(data.cols[i].vals, DefaultCell(data.cols[i])))]]

\* BaseTransform.__call__: the identity.
BaseTransform_call(data) == data

\* The call of a non-Pipeline transform object.
AtomCall(t, data) ==
    CASE t.kind = "BaseTransform" -> BaseTransform_call(data)
      [] t.kind = "FillNaTransform" -> FillNaTransform(data)
      [] t.kind = "DropRows" -> DropRows(data)
      [] t.kind = "DropCols" -> DropCols(data)
      [] t.kind = "AddRow" -> AddRow(data)

RECURSIVE Call(_, _)
RECURSIVE PipelineNoBreak(_, _, _, _)
RECURSIVE Pipeline_loop(_, _, _, _)

\* A Pipeline loop that lacks the emptiness test.
PipelineNoBreak(transforms, i, data, log) ==
    IF i > Len(transforms) THEN [data |-> data, log |-> log]
    ELSE LET out == Call(transforms[i], data)
         IN  PipelineNoBreak(transforms, i + 1, out,
                 Append(log, [idx |-> i, in |-> data, out |-> out]))

\* Pipeline.__call__, the for loop from its i-th transform on: data is the
\* current table, log the invocations made so far.
Pipeline_loop(transforms, i, data, log) ==
    IF i > Len(transforms) THEN [data |-> data, log |-> log]
    ELSE LET out == Call(transforms[i], data)
             log1 == Append(log, [idx |-> i, in |-> data, out |-> out])
         IN  IF Empty(out)
             THEN [data |-> out, log |-> log1]
             ELSE Pipeline_loop(transforms, i + 1, out, log1)

\* Pipeline.__call__: the returned table and the invocations made.
Pipeline_call(transforms, data) == Pipeline_loop(transforms, 1, data, <<>>)

\* transform(data) for any transform object.
Call(t, data) ==
    IF t.kind = "Pipeline" THEN Pipeline_call(t.transforms, data).data
    ELSE AtomCall(t, data)

(***************************************************************************)
(* The validation engine (pandera), as far as the code consumes it:        *)
(* DataFrameSchema.validate with the defaults (strict=False, coerce=False, *)
(* every column required).                                                 *)
(***************************************************************************)
SchemaCol(name, dtype, nullable) ==
    [name |-> name, dtype |-> dtype, nullable |-> nullable]

\* schema.validate(data) does not raise.
SchemaValidate(schema, data) ==
    \A k \in 1..Len(schema) :
        /\ HasColumn(data, schema[k].name)
        /\ GetColumn(data, schema[k].name).dtype = schema[k].dtype
        /\ schema[k].nullable \/ ~HasNull(GetColumn(data, schema[k].name))

(***************************************************************************)
(* Columns.  An instance is [cls, fields, cached, schema, calls]: fields   *)
(* is the ordered <<field name, column name>> list pydantic keeps, cached  *)
(* and schema are the cached_property slot of data_schema, and calls       *)
(* counts the invocations of get_data_schema on the instance.              *)
(***************************************************************************)
\* TestColumns of the tests: the declared fields and their defaults.
TestColumnsFields == << <<"column_a", "Name A">>, <<"column_b", "Name B">> >>

FieldValue(fields, key) ==
    fields[CHOOSE i \in 1..Len(fields) : fields[i][1] = key][2]

HasField(fields, key) == \E i \in 1..Len(fields) : fields[i][1] = key

\* cls.model_validate(attrs) / cls(**attrs): a new instance whose fields are
\* the declared ones, each from attrs when given and its default otherwise.
Model_validate(cls, attrs) ==
    [cls |-> cls,
     fields |-> [i \in 1..Len(TestColumnsFields) |->
                    <<TestColumnsFields[i][1],
                      IF HasField(attrs, TestColumnsFields[i][1])
                      THEN FieldValue(attrs, TestColumnsFields[i][1])
                      ELSE TestColumnsFields[i][2]>>],
     cached |-> FALSE,
     schema |-> <<>>,
     calls |-> 0]

\* TestColumns(): the subclass's default ColumnSet.
TestColumns == Model_validate("TestColumns", <<>>)

\* TestColumns.get_data_schema of the tests.
Get_data_schema(c) ==
    << SchemaCol(FieldValue(c.fields, "column_a"), "object", FALSE),
       SchemaCol(FieldValue(c.fields, "column_b"), "int64", FALSE) >>

\* A data_schema that is a plain property: computed on every access.
DataSchemaUncached(cs, c) ==
    [cs |-> [cs EXCEPT ![c].cached = TRUE,
                       ![c].schema = Get_data_schema(cs[c]),
                       ![c].calls = @ + 1],
     schema |-> Get_data_schema(cs[c])]

\* Columns.data_schema (cached_property): the heap after the access and the
\* schema returned.
Columns_data_schema(cs, c) ==
    IF cs[c].cached
    THEN [cs |-> cs, schema |-> cs[c].schema]
    ELSE [cs |-> [cs EXCEPT ![c].cached = TRUE,
                            ![c].schema = Get_data_schema(cs[c]),
                            ![c].calls = @ + 1],
          schema |-> Get_data_schema(cs[c])]

\* Columns.types: data_schema.dtypes, as <<column name, dtype>> pairs.
Columns_types(cs, c) ==
    LET r == Columns_data_schema(cs, c)
    IN  [cs |-> r.cs,
         schema |-> r.schema,
         types |-> [k \in 1..Len(r.schema) |->
                       <<r.schema[k].name, r.schema[k].dtype>>]]

\* Columns.dump_column_names: model_dump(exclude={"data_schema"}).
Columns_dump_column_names(c) == c.fields

\* A set_prefix that appends the prefix instead of prepending it.
SetPrefixSuffix(cs, c, prefix) ==
    LET columns == Columns_dump_column_names(cs[c])
        new_attrs == [i \in 1..Len(columns) |->
                         <<columns[i][1], columns[i][2] \o prefix>>]
    IN  [cs |-> Append(cs, Model_validate(cs[c].cls, new_attrs)),
         ret |-> Len(cs) + 1]

\* Columns.set_prefix: the heap with the new instance and its address.
Columns_set_prefix(cs, c, prefix) ==
    LET columns == Columns_dump_column_names(cs[c])
        new_attrs == [i \in 1..Len(columns) |->
                         <<columns[i][1], prefix \o columns[i][2]>>]
    IN  [cs |-> Append(cs, Model_validate(cs[c].cls, new_attrs)),
         ret |-> Len(cs) + 1]

\* Columns.validate_data: the heap after the call and whether it returned
\* (ok) or raised the engine's SchemaError.
Columns_validate_data(cs, c, data) ==
    LET r == Columns_data_schema(cs, c)
    IN  [cs |-> r.cs, schema |-> r.schema, ok |-> SchemaValidate(r.schema, data)]

\* Columns.columns: the field names.
Columns_columns(c) ==
    LET d == Columns_dump_column_names(c) IN [i \in 1..Len(d) |-> d[i][1]]

\* Columns.get_names: the column names, in declaration order.
Columns_get_names(c) ==
    LET d == Columns_dump_column_names(c) IN [i \in 1..Len(d) |-> d[i][2]]

\* Columns.dump_dict: the names and the schema it serialises.
Columns_dump_dict(cs, c) ==
    LET r == Columns_data_schema(cs, c)
    IN  [cs |-> r.cs,
         schema |-> r.schema,
         names |-> Columns_dump_column_names(cs[c])]

(***************************************************************************)
(* BaseData.  An instance is [data, columns, skip, checked]: data is       *)
(* self._data, columns the address of self.columns; skip and checked       *)
(* record the constructor call that built it (its skip_check argument, and *)
(* whether validate_data ran and returned).  A call's outcome is           *)
(* [cs, err, obj, warn, checked]: the Columns heap after the call, the     *)
(* exception raised ("" for none), the instance built, the warnings        *)
(* emitted and whether validate_data was called.                           *)
(***************************************************************************)
NoData == [index |-> 0, cols |-> <<>>]
NoObj == [data |-> NoData, columns |-> 0, skip |-> FALSE, checked |-> FALSE]

Raised(cs, err, checked) ==
    [cs |-> cs, err |-> err, obj |-> NoObj, warn |-> <<>>, checked |-> checked]

\* The message of the warning BaseData.__init__ emits for TestData.
SkipWarning == "Data check skipped " \o "TestData" \o "."

\* A constructor that validates whatever skip_check says.
InitAlwaysValidates(cs, data, columns, skip) ==
    LET cs1 == IF columns = 0 THEN Append(cs, TestColumns) ELSE cs
        c == IF columns = 0 THEN Len(cs1) ELSE columns
        v == Columns_validate_data(cs1, c, data)
    IN  IF v.ok
        THEN [cs |-> v.cs, err |-> "",
              obj |-> [data |-> data, columns |-> c,
                       skip |-> skip, checked |-> TRUE],
              warn |-> IF skip THEN <<SkipWarning>> ELSE <<>>,
              checked |-> TRUE]
        ELSE Raised(v.cs, "SchemaError", TRUE)

\* BaseData.__init__(data, columns, skip_check); columns = 0 stands for None.
BaseData_init(cs, data, columns, skip) ==
    LET cs1 == IF columns = 0 THEN Append(cs, TestColumns) ELSE cs
        c == IF columns = 0 THEN Len(cs1) ELSE columns
    IN  IF ~skip
        THEN LET v == Columns_validate_data(cs1, c, data)
             IN  IF v.ok
                 THEN [cs |-> v.cs, err |-> "",
                       obj |-> [data |-> data, columns |-> c,
                                skip |-> FALSE, checked |-> TRUE],
                       warn |-> <<>>, checked |-> TRUE]
                 ELSE Raised(v.cs, "SchemaError", TRUE)
        ELSE [cs |-> cs1, err |-> "",
              obj |-> [data |-> data, columns |-> c,
                       skip |-> TRUE, checked |-> FALSE],
              warn |-> <<SkipWarning>>, checked |-> FALSE]

\* BaseData.default_columns.
BaseData_default_columns(cs) == [cs |-> Append(cs, TestColumns), ret |-> Len(cs) + 1]

\* A from_dataframe that validates the raw table and transforms afterwards.
FromDataframeValidatesRaw(cs, data, columns, transform, skip) ==
    LET dc == IF columns = 0 THEN BaseData_default_columns(cs)
              ELSE [cs |-> cs, ret |-> columns]
        r == BaseData_init(dc.cs, data, dc.ret, skip)
    IN  IF r.err # "" \/ transform = NoTransform THEN r
        ELSE [r EXCEPT !.obj.data = Call(transform, data)]

\* BaseData.from_dataframe(data, columns, transform, **kwargs); skip is the
\* skip_check the keyword arguments carry (False when they carry none).
BaseData_from_dataframe(cs, data, columns, transform, skip) ==
    LET data1 == IF transform # NoTransform THEN Call(transform, data) ELSE data
        dc == IF columns = 0 THEN BaseData_default_columns(cs)
              ELSE [cs |-> cs, ret |-> columns]
    IN  BaseData_init(dc.cs, data1, dc.ret, skip)

\* A new_data that treats the receiver's table as already validated.
NewDataSkipsCheck(cs, self, data) ==
    BaseData_from_dataframe(cs, data, self.columns, NoTransform, TRUE)

\* BaseData.new_data(data).
BaseData_new_data(cs, self, data) ==
    BaseData_from_dataframe(cs, data, self.columns, NoTransform, FALSE)

\* A transform that rebuilds with the subclass's default ColumnSet.
TransformDefaultColumns(cs, self, transform) ==
    BaseData_from_dataframe(cs, self.data, 0, transform, FALSE)

\* BaseData.transform(transform).
BaseData_transform(cs, self, transform) ==
    BaseData_from_dataframe(cs, self.data, self.columns, transform, FALSE)

\* DataFrame.rename(columns={name: prefix + name for name in data.columns}).
Rename(data, prefix) ==
    [data EXCEPT !.cols = [i \in 1..Len(data.cols) |->
        Col(prefix \o data.cols[i].name, data.cols[i].dtype, data.cols[i].vals)]]

\* A prefix_columns that renames only the columns the ColumnSet declares.
PrefixDeclaredOnly(cs, self, prefix) ==
    LET names == Columns_get_names(cs[self.columns])
        new == [self.data EXCEPT !.cols = [i \in 1..Len(self.data.cols) |->
                   IF \E k \in 1..Len(names) : names[k] = self.data.cols[i].name
                   THEN Col(prefix \o self.data.cols[i].name,
                            self.data.cols[i].dtype, self.data.cols[i].vals)
                   ELSE self.data.cols[i]]]
        new_columns == Columns_set_prefix(cs, self.columns, prefix)
    IN  BaseData_from_dataframe(new_columns.cs, new, new_columns.ret,
                                NoTransform, FALSE)

\* BaseData.prefix_columns(prefix).
BaseData_prefix_columns(cs, self, prefix) ==
    LET new == Rename(self.data, prefix)
        new_columns == Columns_set_prefix(cs, self.columns, prefix)
    IN  BaseData_from_dataframe(new_columns.cs, new, new_columns.ret,
                                NoTransform, FALSE)

\* data[names]: the named columns in the order of names (all present).
Select(data, names) ==
    [data EXCEPT !.cols = [k \in 1..Len(names) |-> GetColumn(data, names[k])]]

\* A truncate_columns that keeps the table's own column order.
TruncateKeepsOrder(cs, self) ==
    LET names == Columns_get_names(cs[self.columns])
        keep == SelectSeq(self.data.cols,
                    LAMBDA col : \E k \in 1..Len(names) : names[k] = col.name)
    IN  IF \A k \in 1..Len(names) : HasColumn(self.data, names[k])
        THEN BaseData_new_data(cs, self, [self.data EXCEPT !.cols = keep])
        ELSE Raised(cs, "KeyError", FALSE)

\* BaseData.truncate_columns(); data[names] raises KeyError for a name the
\* table lacks.
BaseData_truncate_columns(cs, self) ==
    LET names == Columns_get_names(cs[self.columns])
    IN  IF \A k \in 1..Len(names) : HasColumn(self.data, names[k])
        THEN BaseData_new_data(cs, self, Select(self.data, names))
        ELSE Raised(cs, "KeyError", FALSE)

(***************************************************************************)
(* Inputs: the tables, prefixes and transforms the operations are called   *)
(* with.                                                                   *)
(***************************************************************************)
\* The table of the tests (two of its rows): valid for TestColumns.
TValid == [index |-> 2,
           cols |-> << Col("Name A", "object", <<"a", "b">>),
                       Col("Name B", "int64", <<"1", "2">>) >>]

\* The failing table of the tests: "Name B" ends with pd.NA (object dtype).
TNull == [index |-> 2,
          cols |-> << Col("Name A", "object", <<"a", "b">>),
                      Col("Name B", "object", <<"1", NA>>) >>]

\* A missing value in a column of the right dtype.
TNullA == [index |-> 2,
           cols |-> << Col("Name A", "object", <<"a", NA>>),
                       Col("Name B", "int64", <<"1", "2">>) >>]

\* "Name B" is absent, and an undeclared column is present.
TMissing == [index |-> 2,
             cols |-> << Col("Extra", "object", <<"b", NA>>),
                         Col("Name A", "object", <<"a", "b">>) >>]

\* "Name B" holds strings.
TType == [index |-> 2,
          cols |-> << Col("Name A", "object", <<"a", "b">>),
                      Col("Name B", "object", <<"a", "b">>) >>]

\* A valid table with an undeclared column, not in declared order.
TExtra == [index |-> 2,
           cols |-> << Col("Name B", "int64", <<"1", "2">>),
                       Col("Extra", "object", <<"b", NA>>),
                       Col("Name A", "object", <<"a", "b">>) >>]

\* A valid table without rows.
TEmpty == [index |-> 0,
           cols |-> << Col("Name A", "object", <<>>),
                       Col("Name B", "int64", <<>>) >>]

RawTables == {TValid, TNull, TNullA, TMissing, TType, TExtra}
SeedTables == {TNull, TMissing, TExtra}
PipelineTables == {TValid, TNull, TExtra, TEmpty, DropCols(TValid)}
Prefixes == {"", "l_"}

FillNa == Transform("FillNaTransform")
AtomTransforms ==
    {Transform("BaseTransform"), FillNa, Transform("DropRows"),
     Transform("DropCols"), Transform("AddRow")}
DataTransforms == {Pipeline(<<FillNa>>), Transform("DropCols")}

RECURSIVE SeqsUpTo(_, _)
SeqsUpTo(S, n) ==
    IF n = 0 THEN {<<>>}
    ELSE LET T == SeqsUpTo(S, n - 1)
         IN  T \cup {Append(t, x) : t \in {u \in T : Len(u) = n - 1}, x \in S}

(***************************************************************************)
(* State.                                                                  *)
(***************************************************************************)
NoCall ==
    [op |-> "", self |-> 0, data |-> NoData, columns |-> 0,
     transform |-> NoTransform, skip |-> FALSE, prefix |-> "",
     err |-> "", ret |-> 0, checked |-> FALSE, schema |-> <<>>,
     n0 |-> 0, c0 |-> 0, w0 |-> 0, cs0 |-> <<>>, ds0 |-> <<>>]

NoRun == [called |-> FALSE, transforms |-> <<>>, input |-> NoData,
          out |-> NoData, log |-> <<>>]

Init ==
    /\ colsets = <<>>
    /\ datas = <<>>
    /\ warnings = <<>>
    /\ last = NoCall
    /\ run = NoRun

\* The call record of an operation, before its outcome is filled in.
CallRec(op) ==
    [NoCall EXCEPT !.op = op, !.n0 = Len(datas), !.c0 = Len(colsets),
                   !.w0 = Len(warnings), !.cs0 = colsets, !.ds0 = datas]

(***************************************************************************)
(* Operations on Columns.                                                  *)
(***************************************************************************)
\* columns = TestColumns()
NewColumns ==
    /\ last.err = ""
    /\ Len(colsets) < MaxColumns
    /\ colsets' = Append(colsets, TestColumns)
    /\ last' = [CallRec("TestColumns") EXCEPT !.ret = Len(colsets) + 1]
    /\ UNCHANGED <<datas, warnings, run>>

\* columns.data_schema
DataSchema(c) ==
    LET r == Columns_data_schema(colsets, c)
    IN  /\ last.err = ""
        /\ colsets' = r.cs
        /\ last' = [CallRec("data_schema") EXCEPT !.self = c, !.schema = r.schema]
        /\ UNCHANGED <<datas, warnings, run>>

\* columns.types
Types(c) ==
    LET r == Columns_types(colsets, c)
    IN  /\ last.err = ""
        /\ colsets' = r.cs
        /\ last' = [CallRec("types") EXCEPT !.self = c, !.schema = r.schema]
        /\ UNCHANGED <<datas, warnings, run>>

\* columns.dump_dict()
DumpDict(c) ==
    LET r == Columns_dump_dict(colsets, c)
    IN  /\ last.err = ""
        /\ colsets' = r.cs
        /\ last' = [CallRec("dump_dict") EXCEPT !.self = c, !.schema = r.schema]
        /\ UNCHANGED <<datas, warnings, run>>

\* columns.validate_data(data)
ValidateData(c, data) ==
    LET r == Columns_validate_data(colsets, c, data)
    IN  /\ last.err = ""
        /\ colsets' = r.cs
        /\ last' = [CallRec("validate_data") EXCEPT
                       !.self = c, !.data = data, !.schema = r.schema,
                       !.checked = TRUE,
                       !.err = IF r.ok THEN "" ELSE "SchemaError"]
        /\ UNCHANGED <<datas, warnings, run>>

\* columns.set_prefix(prefix)
SetPrefix(c, prefix) ==
    LET r == Columns_set_prefix(colsets, c, prefix)
    IN  /\ last.err = ""
        /\ Len(colsets) < MaxColumns
        /\ colsets' = r.cs
        /\ last' = [CallRec("set_prefix") EXCEPT
                       !.self = c, !.prefix = prefix, !.ret = r.ret]
        /\ UNCHANGED <<datas, warnings, run>>

(***************************************************************************)
(* Operations on BaseData.                                                 *)
(***************************************************************************)
\* The effect of a call that builds an instance: r is its outcome and rec
\* its call record.  The heap entry of the instance also records the method
\* that built it (via), its receiver (parent, 0 for a constructor or
\* factory call) and the prefix passed.
Commit(r, rec) ==
    /\ last.err = ""
    /\ Len(datas) < MaxData
    /\ Len(r.cs) <= MaxColumns
    /\ colsets' = r.cs
    /\ datas' = IF r.err = ""
                THEN Append(datas, [data |-> r.obj.data,
                                    columns |-> r.obj.columns,
                                    skip |-> r.obj.skip,
                                    checked |-> r.obj.checked,
                                    via |-> rec.op,
                                    parent |-> rec.self,
                                    prefix |-> rec.prefix])
                ELSE datas
    /\ warnings' = warnings \o r.warn
    /\ last' = [rec EXCEPT !.err = r.err, !.checked = r.checked,
                           !.ret = IF r.err = "" THEN Len(datas) + 1 ELSE 0]
    /\ UNCHANGED run

\* The instances built by a constructor or factory call.
Roots == {i \in 1..Len(datas) : datas[i].parent = 0}

\* TestData(data, columns, skip_check)
Construct(data, columns, skip) ==
    /\ Cardinality(Roots) < MaxRoots
    /\ Commit(BaseData_init(colsets, data, columns, skip),
              [CallRec("__init__") EXCEPT
                  !.data = data, !.columns = columns, !.skip = skip])

\* TestData.from_dataframe(data, columns, transform, skip_check=skip)
FromDataframe(data, columns, transform, skip) ==
    /\ Cardinality(Roots) < MaxRoots
    /\ Commit(BaseData_from_dataframe(colsets, data, columns, transform, skip),
              [CallRec("from_dataframe") EXCEPT
                  !.data = data, !.columns = columns,
                  !.transform = transform, !.skip = skip])

\* datas[self].new_data(data)
NewData(self, data) ==
    Commit(BaseData_new_data(colsets, datas[self], data),
           [CallRec("new_data") EXCEPT !.self = self, !.data = data])

\* datas[self].transform(transform)
TransformData(self, transform) ==
    Commit(BaseData_transform(colsets, datas[self], transform),
           [CallRec("transform") EXCEPT !.self = self, !.transform = transform])

\* datas[self].truncate_columns()
TruncateColumns(self) ==
    Commit(BaseData_truncate_columns(colsets, datas[self]),
           [CallRec("truncate_columns") EXCEPT !.self = self])

\* datas[self].prefix_columns(prefix)
PrefixColumns(self, prefix) ==
    Commit(BaseData_prefix_columns(colsets, datas[self], prefix),
           [CallRec("prefix_columns") EXCEPT !.self = self, !.prefix = prefix])

\* The caller handles the exception a call raised (pytest.raises in the
\* tests) and goes on.
Except ==
    /\ last.err # ""
    /\ last' = NoCall
    /\ UNCHANGED <<colsets, datas, warnings, run>>

(***************************************************************************)
(* A call of a Pipeline object on a table.  A behaviour makes one call:    *)
(* the call reads nothing but its arguments.                               *)
(***************************************************************************)
PipelineCall(transforms, data) ==
    LET r == Pipeline_call(transforms, data)
    IN  /\ ~run.called
        /\ run' = [called |-> TRUE, transforms |-> transforms, input |-> data,
                   out |-> r.data, log |-> r.log]
        /\ UNCHANGED <<colsets, datas, warnings, last>>

(***************************************************************************)
(* Specifications.  Spec: BaseData instances and what is derived from      *)
(* them.  SpecBuild: the constructor and the factory on every input table, *)
(* with and without an explicit ColumnSet.  SpecColumns: the operations of *)
(* Columns.  SpecPipeline: Pipeline calls.                                 *)
(***************************************************************************)
Next ==
    \/ NewColumns
    \/ \E data \in SeedTables, columns \in 1..Len(colsets), skip \in BOOLEAN :
          Construct(data, columns, skip)
    \/ \E columns \in 1..Len(colsets), skip \in BOOLEAN :
          FromDataframe(TNull, columns, Pipeline(<<FillNa>>), skip)
    \/ \E self \in 1..Len(datas), data \in {TValid, TNull} : NewData(self, data)
    \/ \E self \in 1..Len(datas), transform \in DataTransforms :
          TransformData(self, transform)
    \/ \E self \in 1..Len(datas) : TruncateColumns(self)
    \/ \E self \in 1..Len(datas), prefix \in Prefixes : PrefixColumns(self, prefix)
    \/ Except

Spec == Init /\ [][Next]_vars

NextBuild ==
    \/ NewColumns
    \/ \E data \in RawTables, columns \in 0..Len(colsets), skip \in BOOLEAN :
          Construct(data, columns, skip)
    \/ \E data \in RawTables, columns \in 0..Len(colsets),
          transform \in {NoTransform} \cup DataTransforms, skip \in BOOLEAN :
          FromDataframe(data, columns, transform, skip)
    \/ Except

SpecBuild == Init /\ [][NextBuild]_vars

NextColumns ==
    \/ NewColumns
    \/ \E c \in 1..Len(colsets) : DataSchema(c)
    \/ \E c \in 1..Len(colsets) : Types(c)
    \/ \E c \in 1..Len(colsets) : DumpDict(c)
    \/ \E c \in 1..Len(colsets), data \in RawTables : ValidateData(c, data)
    \/ \E c \in 1..Len(colsets), prefix \in Prefixes : SetPrefix(c, prefix)
    \/ Except

SpecColumns == Init /\ [][NextColumns]_vars

NextPipeline ==
    \E transforms \in SeqsUpTo(AtomTransforms, MaxPipe), data \in PipelineTables :
        PipelineCall(transforms, data)

SpecPipeline == Init /\ [][NextPipeline]_vars

(***************************************************************************)
(* Properties.  In a call record, n0, c0 and w0 are the lengths of datas,  *)
(* colsets and warnings when the call was made, cs0 and ds0 the two heaps  *)
(* at that time.                                                           *)
(***************************************************************************)
SchemaOf(c) == Get_data_schema(colsets[c])

\* The ColumnSet a constructor or factory call binds: the one passed, or
\* the default instance the call creates.
BoundColumns == IF last.columns = 0 THEN last.c0 + 1 ELSE last.columns

SameCells(a, b) == a.dtype = b.dtype /\ a.vals = b.vals

\* C1: a Pipeline invokes its transforms in order, each on the previous
\* step's output; it stops after the first step whose output is empty
\* (DataFrame.empty, which zero rows imply), invokes no later transform and
\* returns exactly that output; otherwise it runs every step and returns
\* the last output.
C1_PipelineShortCircuit ==
    run.called =>
        LET n == Len(run.transforms)
            m == Len(run.log)
        IN  /\ m <= n
            /\ \A k \in 1..m :
                  /\ run.log[k].idx = k
                  /\ run.log[k].in = IF k = 1 THEN run.input
                                     ELSE run.log[k - 1].out
                  /\ run.log[k].out = Call(run.transforms[k], run.log[k].in)
                  /\ run.log[k].out.index = 0 =>
                        m = k /\ run.out = run.log[k].out
                  /\ Empty(run.log[k].out) => m = k
            /\ m < n => m >= 1 /\ Empty(run.log[m].out)
            /\ run.out = IF m = 0 THEN run.input ELSE run.log[m].out

\* C1 witness: Pipeline(A, B) on a table with rows, A returned a table
\* without rows and B was not invoked.
C1_Witness ==
    /\ run.called
    /\ Len(run.transforms) = 2
    /\ run.input.index > 0
    /\ Len(run.log) = 1
    /\ run.log[1].out.index = 0
    /\ run.out = run.log[1].out

\* C2: a Pipeline applied to a table without rows returns that same table
\* and invokes none of the steps that remain after its first.
C2_EmptyInputShortCircuit ==
    (run.called /\ run.input.index = 0) =>
        run.out = run.input /\ Len(run.log) <= 1

\* C3: the constructor with skip_check false validates the table against
\* the ColumnSet's schema and raises the validation error on a violation,
\* leaving no instance; with skip_check true it validates nothing, emits
\* the warning naming the subclass and builds the instance.
C3_ConstructionValidates ==
    last.op = "__init__" =>
        LET c == BoundColumns
            valid == SchemaValidate(SchemaOf(c), last.data)
            calls0 == IF c <= last.c0 THEN last.cs0[c].calls ELSE 0
        IN  /\ ~last.skip =>
                /\ last.checked
                /\ last.err = IF valid THEN "" ELSE "SchemaError"
                /\ Len(warnings) = last.w0
            /\ last.skip =>
                /\ ~last.checked
                /\ colsets[c].calls = calls0
                /\ last.err = ""
                /\ Len(warnings) = last.w0 + 1
                /\ warnings[Len(warnings)] = "Data check skipped TestData."
            /\ last.err # "" => last.ret = 0 /\ datas = last.ds0
            /\ last.err = "" =>
                /\ last.ret = last.n0 + 1
                /\ datas = Append(last.ds0, datas[last.ret])
                /\ datas[last.ret].data = last.data
                /\ datas[last.ret].columns = c

\* C3 witness: a table lacking a declared column was passed with
\* skip_check true; the instance holds it and the warning was emitted.
C3_Witness ==
    /\ last.op = "__init__"
    /\ last.skip
    /\ last.data = TMissing
    /\ ~SchemaValidate(SchemaOf(BoundColumns), last.data)
    /\ last.err = ""
    /\ datas[last.ret].data = TMissing
    /\ Len(warnings) = last.w0 + 1

\* C4: from_dataframe applies the transform first and validates only the
\* transform's output; the instance built wraps that output; with columns
\* omitted it binds a new default ColumnSet.
C4_FromDataframeOrder ==
    last.op = "from_dataframe" =>
        LET c == BoundColumns
            out == IF last.transform = NoTransform THEN last.data
                   ELSE Call(last.transform, last.data)
            valid == SchemaValidate(SchemaOf(c), out)
        IN  /\ last.err = IF last.skip \/ valid THEN "" ELSE "SchemaError"
            /\ last.err = "" =>
                /\ last.ret = last.n0 + 1
                /\ datas = Append(last.ds0, datas[last.ret])
                /\ datas[last.ret].data = out
                /\ datas[last.ret].columns = c
            /\ last.err # "" => datas = last.ds0
            /\ last.columns = 0 =>
                /\ Len(colsets) = last.c0 + 1
                /\ colsets[c].cls = "TestColumns"
                /\ colsets[c].fields = TestColumnsFields

\* C4 witness: the table with a missing value, which the schema rejects,
\* was accepted through from_dataframe with the filling transform.
C4_Witness ==
    /\ last.op = "from_dataframe"
    /\ ~last.skip
    /\ last.data = TNull
    /\ last.transform = Pipeline(<<FillNa>>)
    /\ ~SchemaValidate(SchemaOf(BoundColumns), TNull)
    /\ last.err = ""
    /\ datas[last.ret].data # TNull
    /\ ~HasNull(GetColumn(datas[last.ret].data, "Name B"))

\* C5: set_prefix returns a new instance of the receiver's class with the
\* same field names, each column name being the prefix followed by the
\* receiver's; the receiver is unchanged.
C5_SetPrefix ==
    last.op = "set_prefix" =>
        LET old == last.cs0[last.self]
            new == colsets[last.ret]
        IN  /\ last.ret = last.c0 + 1
            /\ Len(colsets) = last.ret
            /\ new.cls = old.cls
            /\ Len(new.fields) = Len(old.fields)
            /\ \A i \in 1..Len(old.fields) :
                  /\ new.fields[i][1] = old.fields[i][1]
                  /\ new.fields[i][2] = last.prefix \o old.fields[i][2]
            /\ \A c \in 1..last.c0 : colsets[c] = last.cs0[c]

\* C5 witness: set_prefix("l_") on a default instance whose schema is
\* cached; the new instance holds the prefixed names.
C5_Witness ==
    /\ last.op = "set_prefix"
    /\ last.prefix = "l_"
    /\ last.cs0[last.self].cached
    /\ last.cs0[last.self].fields = TestColumnsFields
    /\ Columns_get_names(colsets[last.ret]) = <<"l_Name A", "l_Name B">>
    /\ Columns_columns(colsets[last.ret]) = <<"column_a", "column_b">>

\* C6: get_data_schema runs at most once per Columns instance over all
\* accesses to data_schema, types, validate_data and dump_dict, each access
\* returning the cached schema; an instance made by set_prefix starts with
\* an empty cache and its schema is computed from its own names.
C6_SchemaCached ==
    /\ \A c \in 1..Len(colsets) :
          /\ colsets[c].calls <= 1
          /\ colsets[c].cached <=> colsets[c].calls = 1
          /\ colsets[c].cached => colsets[c].schema = SchemaOf(c)
    /\ last.op \in {"data_schema", "types", "validate_data", "dump_dict"} =>
          /\ colsets[last.self].cached
          /\ last.schema = colsets[last.self].schema
          /\ last.cs0[last.self].cached =>
                /\ last.schema = last.cs0[last.self].schema
                /\ colsets[last.self].calls = last.cs0[last.self].calls
    /\ last.op = "set_prefix" =>
          /\ ~colsets[last.ret].cached
          /\ colsets[last.ret].calls = 0
          /\ colsets[last.self] = last.cs0[last.self]

\* C6 witness: an access to an instance whose schema was already cached,
\* the instance being a prefixed one whose receiver holds its own schema.
C6_Witness ==
    /\ last.op \in {"data_schema", "types", "validate_data", "dump_dict"}
    /\ last.cs0[last.self].cached
    /\ colsets[last.self].fields[1][2] = "l_Name A"
    /\ colsets[last.self].schema[1].name = "l_Name A"
    /\ \E c \in 1..Len(colsets) :
          /\ colsets[c].cached
          /\ colsets[c].schema[1].name = "Name A"

\* The table prefix_columns builds from table data: every column renamed.
Prefixed(new, data, prefix) ==
    /\ new.index = data.index
    /\ Len(new.cols) = Len(data.cols)
    /\ \A i \in 1..Len(data.cols) :
          /\ new.cols[i].name = prefix \o data.cols[i].name
          /\ SameCells(new.cols[i], data.cols[i])

\* What a prefix_columns call that returned has built, and what it left
\* alone.
PrefixColumnsResult ==
    LET T == last.ds0[last.self]
        new == datas[last.ret]
    IN  /\ last.ret = last.n0 + 1
        /\ datas = Append(last.ds0, new)
        /\ Prefixed(new.data, T.data, last.prefix)
        /\ new.columns = last.c0 + 1
        /\ colsets[new.columns].cls = last.cs0[T.columns].cls
        /\ \A i \in 1..Len(last.cs0[T.columns].fields) :
              colsets[new.columns].fields[i] =
                  << last.cs0[T.columns].fields[i][1],
                     last.prefix \o last.cs0[T.columns].fields[i][2] >>
        /\ Len(colsets[new.columns].fields) = Len(last.cs0[T.columns].fields)
        /\ \A c \in 1..last.c0 : colsets[c] = last.cs0[c]

\* C7 as stated: prefix_columns returns, for every instance and prefix, a
\* new instance with every column renamed and the prefixed ColumnSet,
\* leaving the receiver unchanged.
C7_PrefixColumnsTotal ==
    last.op = "prefix_columns" => last.err = "" /\ PrefixColumnsResult

\* C7 amended: prefix_columns validates the renamed table against the
\* prefixed ColumnSet; when that passes it returns a new instance with
\* every column renamed and the prefixed ColumnSet, and otherwise raises
\* the validation error and builds no instance; the receiver and its
\* ColumnSet are unchanged either way.
C7_PrefixColumns ==
    last.op = "prefix_columns" =>
        LET T == last.ds0[last.self]
            derived == last.c0 + 1
            valid == SchemaValidate(SchemaOf(derived),
                                    Rename(T.data, last.prefix))
        IN  /\ Len(colsets) = derived
            /\ last.err = IF valid THEN "" ELSE "SchemaError"
            /\ last.err = "" => PrefixColumnsResult
            /\ last.err # "" => datas = last.ds0
            /\ \A c \in 1..last.c0 :
                  colsets[c].fields = last.cs0[c].fields
            /\ colsets[T.columns] = last.cs0[T.columns]

\* C7 witness: prefix_columns("l_") returned for a table with an
\* undeclared column.
C7_Witness ==
    /\ last.op = "prefix_columns"
    /\ last.prefix = "l_"
    /\ last.err = ""
    /\ last.ds0[last.self].data = TExtra
    /\ ColumnNames(datas[last.ret].data) = <<"l_Name B", "l_Extra", "l_Name A">>

HasExtraColumns(self) ==
    \E i \in 1..Len(self.data.cols) :
        \A k \in 1..Len(colsets[self.columns].fields) :
            colsets[self.columns].fields[k][2] # self.data.cols[i].name

\* What a truncate_columns call that returned has built.
TruncateColumnsResult ==
    LET T == last.ds0[last.self]
        new == datas[last.ret]
        names == [k \in 1..Len(colsets[T.columns].fields) |->
                     colsets[T.columns].fields[k][2]]
    IN  /\ last.ret = last.n0 + 1
        /\ datas = Append(last.ds0, new)
        /\ new.columns = T.columns
        /\ new.data.index = T.data.index
        /\ ColumnNames(new.data) = names
        /\ \A k \in 1..Len(names) :
              SameCells(new.data.cols[k], GetColumn(T.data, names[k]))

\* C8 as stated: truncate_columns on an instance whose table has
\* undeclared columns returns a new instance whose columns are exactly the
\* declared names, in declared order, with the same values, bound to the
\* same ColumnSet.
C8_TruncateColumnsTotal ==
    (last.op = "truncate_columns" /\ HasExtraColumns(last.ds0[last.self])) =>
        last.err = "" /\ TruncateColumnsResult

\* C8 amended: truncate_columns raises KeyError when the table lacks a
\* declared column and the validation error when the selected columns
\* violate the schema, building no instance; otherwise it returns a new
\* instance whose columns are exactly the declared names, in declared
\* order, with the same values, bound to the same ColumnSet.
C8_TruncateColumns ==
    last.op = "truncate_columns" =>
        LET T == last.ds0[last.self]
            present == \A k \in 1..Len(colsets[T.columns].fields) :
                          HasColumn(T.data, colsets[T.columns].fields[k][2])
        IN  /\ last.err =
                  IF ~present THEN "KeyError"
                  ELSE IF SchemaValidate(SchemaOf(T.columns), T.data)
                       THEN "" ELSE "SchemaError"
            /\ last.err = "" => TruncateColumnsResult
            /\ last.err # "" => datas = last.ds0

\* C8 witness: truncate_columns returned for the table with an undeclared
\* column whose declared columns are not in declared order.
C8_Witness ==
    /\ last.op = "truncate_columns"
    /\ last.err = ""
    /\ last.ds0[last.self].data = TExtra
    /\ HasExtraColumns(last.ds0[last.self])
    /\ ColumnNames(datas[last.ret].data) = <<"Name A", "Name B">>

SharingMethods == {"new_data", "transform", "truncate_columns"}

\* The instance a chain of new_data, transform and truncate_columns calls
\* started from.
RECURSIVE Origin(_)
Origin(i) ==
    IF datas[i].via \in SharingMethods THEN Origin(datas[i].parent) ELSE i

\* C9: every instance derived by new_data, transform and truncate_columns
\* calls holds the ColumnSet instance of the instance the calls started
\* from; an instance made by prefix_columns holds a new ColumnSet instance,
\* held by no earlier instance.
C9_ColumnsShared ==
    \A i \in 1..Len(datas) :
        /\ datas[i].columns = datas[Origin(i)].columns
        /\ datas[i].via \in SharingMethods =>
              datas[i].columns = datas[datas[i].parent].columns
        /\ datas[i].via = "prefix_columns" =>
              \A j \in 1..(i - 1) : datas[j].columns # datas[i].columns

\* C9 witness: an instance derived by a sharing call and an instance made
\* by prefix_columns("l_") from the same origin.
C9_Witness ==
    \E i, j \in 1..Len(datas) :
        /\ datas[i].via \in SharingMethods
        /\ datas[i].columns = datas[Origin(i)].columns
        /\ datas[j].via = "prefix_columns"
        /\ datas[j].prefix = "l_"
        /\ datas[j].parent = Origin(i)
        /\ datas[j].columns # datas[Origin(i)].columns

DerivingMethods == SharingMethods \cup {"prefix_columns"}

\* The table a deriving call hands to the constructor.
DerivedTable ==
    LET T == last.ds0[last.self]
    IN  CASE last.op = "new_data" -> last.data
          [] last.op = "transform" -> Call(last.transform, T.data)
          [] last.op = "prefix_columns" -> Rename(T.data, last.prefix)

\* C10: new_data, transform, truncate_columns and prefix_columns validate
\* the table they build and raise on a violation, whatever skip_check the
\* receiver was built with; so every instance either passed validation when
\* it was built, or was built by a constructor or from_dataframe call given
\* skip_check true, which emitted the warning.
C10_SkipNotInherited ==
    /\ \A i \in 1..Len(datas) :
          \/ /\ datas[i].checked
             /\ ~datas[i].skip
             /\ SchemaValidate(SchemaOf(datas[i].columns), datas[i].data)
          \/ /\ datas[i].skip
             /\ ~datas[i].checked
             /\ datas[i].via \in {"__init__", "from_dataframe"}
    /\ Len(warnings) = Cardinality({i \in 1..Len(datas) : datas[i].skip})
    /\ \A w \in 1..Len(warnings) : warnings[w] = "Data check skipped TestData."
    /\ last.op \in DerivingMethods =>
          /\ last.err = "" => last.checked /\ ~datas[last.ret].skip
          /\ Len(warnings) = last.w0
    /\ last.op \in DerivingMethods \ {"truncate_columns"} =>
          (last.err = "" <=>
              SchemaValidate(SchemaOf(IF last.op = "prefix_columns"
                                      THEN last.c0 + 1
                                      ELSE last.ds0[last.self].columns),
                             DerivedTable))

\* C10 witness: new_data on an instance built with skip_check true raised
\* the validation error.
C10_Witness ==
    /\ last.op = "new_data"
    /\ last.ds0[last.self].skip
    /\ ~SchemaValidate(SchemaOf(last.ds0[last.self].columns),
                       last.ds0[last.self].data)
    /\ last.err = "SchemaError"
    /\ datas = last.ds0

====
